---------------------------- MODULE Spec2Model ----------------------------
(***************************************************************************)
(* A model of the wireless sensor network simulation: Node (node.py),      *)
(* Cluster (cluster.py) and WSN with get_cluster_id (wsn.py).              *)
(*                                                                         *)
(* A Node object is a record held in `heap`; its position in `heap` is the *)
(* object's identity, so that two Node objects with equal fields stay two  *)
(* objects.  Lists of nodes (WSN.nodes, Cluster.nodes, the route) hold     *)
(* object identities.  Python's 0-based list positions and KD-tree indices *)
(* are kept 0-based; the TLA+ sequence element is at position + 1.         *)
(* Coordinates, r, e and p are integers, as generate_nodes produces them.  *)
(***************************************************************************)
EXTENDS Integers, Sequences, FiniteSets, TLC

\* ------------------------------------------------------------ constants
MAX_COORD == 20
CLUSTER_SIZE == 5
NUM_CLUSTERS == 16
\* the literal 4 of "row * 4 + col" and of Cluster.center
GRID_WIDTH == 4
\* the literal 20 of rank_and_file_calculator's "value != 20"
OUTER_EDGE == 20

\* ------------------------------------------------------------ bounds
\* the largest node count an input file declares
MaxNodes == 4
\* calls of assign_clusters on one WSN, the constructor's included
MaxAssign == 2
\* the most candidates the random source yields in a further call of
\* generate_nodes on one WSN
MaxRegen == 1

\* Python's None where a Node object is expected (no object has identity 0)
NoNode == 0
\* Python's None in Node.cluster (no cluster has id -1)
NoCluster == -1

\* ------------------------------------------------------------ node.py
\* IEEE-754 double arithmetic on the values of Node.__init__'s expression
\* for f.  A double is kept exactly, as <<t, d>>: t tenths plus d units of
\* 2^-55 / 5.  In these units one tenth is 2^54, the literal 0.4 is
\* <<4, 4>> and the literal 0.2 is <<2, 2>>.

\* the double is at least 2^k
AtLeastPow2(t, d, k) ==
    8 * t > 10 * 2^(k + 3) \/ (8 * t = 10 * 2^(k + 3) /\ d >= 0)

\* the k with 2^k <= <<t, d>> < 2^(k+1), for the values from 0.2 up to 64
Binade(t, d) ==
    CHOOSE k \in (-3)..5 : AtLeastPow2(t, d, k) /\ ~ AtLeastPow2(t, d, k + 1)

\* (2^n) mod 5
Pow2Mod5(n) == (2^(n % 4)) % 5

\* round to nearest double, ties to even: the exact value t tenths and d
\* units becomes the double <<t, d'>>.  The doubles of [2^k, 2^(k+1)) are S
\* units apart; rho is the value modulo S, rho2 the value modulo 2S.
RoundToDouble(t, d) ==
    IF t = 0 THEN <<0, 0>>
    ELSE LET k == Binade(t, d)
             S == 5 * 2^(k + 3)
             rho == (2^(k + 3) * ((t * Pow2Mod5(51 - k)) % 5) + d) % S
             rho2 == (2^(k + 4) * ((t * Pow2Mod5(50 - k)) % 5) + d) % (2 * S)
         IN  IF 2 * rho < S \/ (2 * rho = S /\ rho2 < S)
             THEN <<t, d - rho>>
             ELSE <<t, d + S - rho>>

\* the double product of the literal c tenths (c = 4 or 2) and the integer n
FloatTimes(c, n) == RoundToDouble(c * n, c * n)

\* the double sum of two doubles
FloatPlus(a, b) == RoundToDouble(a[1] + b[1], a[2] + b[2])

\* a double <<t, d>> as one integer, in the doubles' order
FSCALE == 10000

FloatCode(a) == a[1] * FSCALE + a[2]

\* the tenths a fitness value stands for, and its distance from them
Tenths(f) == (f + FSCALE \div 2) \div FSCALE

Deviation(f) == f - Tenths(f) * FSCALE

\* Node.__init__ with the three weights all 0.4
Fitness_equal_weights(r, e, p) ==
    FloatCode(FloatPlus(FloatPlus(FloatTimes(4, r), FloatTimes(4, e)), FloatTimes(4, p)))

\* Node.__init__: f = 0.4*r + 0.4*e + 0.2*p, evaluated left to right in
\* doubles
Fitness(r, e, p) ==
    FloatCode(FloatPlus(FloatPlus(FloatTimes(4, r), FloatTimes(4, e)), FloatTimes(2, p)))

Node(node_id, x, y, r, e, p) ==
    [node_id |-> node_id, x |-> x, y |-> y, r |-> r, e |-> e, p |-> p,
     cluster |-> NoCluster, f |-> Fitness(r, e, p)]

\* Node.distance_to, squared: the norm is compared, never added, and the
\* square root is strictly monotone on these integers
Dist2(x1, y1, x2, y2) == (x1 - x2) * (x1 - x2) + (y1 - y2) * (y1 - y2)

distance_to2(a, b) == Dist2(a.x, a.y, b.x, b.y)

\* the largest s of lo..(hi - 1) with s * s <= n, where lo * lo <= n < hi * hi
RECURSIVE Isqrt(_, _, _)
Isqrt(n, lo, hi) ==
    IF hi - lo <= 1 THEN lo
    ELSE LET mid == (lo + hi) \div 2
         IN  IF mid * mid <= n THEN Isqrt(n, mid, hi) ELSE Isqrt(n, lo, mid)

\* distance_to taking the norm of the x offset alone
distance_to_x_only(a, b) ==
    Isqrt(Dist2(a.x, 0, b.x, 0) * 1000 * 1000, 0, 46340)

\* Node.distance_to: the norm of the difference of the two positions, the
\* square root of dx^2 + dy^2.  The double it returns is kept in
\* thousandths, rounded down.
distance_to(a, b) ==
    Isqrt(Dist2(a.x, a.y, b.x, b.y) * 1000 * 1000, 0, 46340)

\* ------------------------------------------------------------ wsn.py: grid
\* rank_and_file_calculator without the reflection of the outer edge
rank_and_file_no_reflection(value, coin) ==
    LET result == value \div CLUSTER_SIZE
    IN  IF value % CLUSTER_SIZE = 0 /\ value # 0 /\ value # OUTER_EDGE /\ coin
        THEN result - 1
        ELSE result

\* rank_and_file_calculator adjusting the outer edge like an interior boundary
rank_and_file_adjust_edge(value, coin) ==
    LET result == (value \div CLUSTER_SIZE) - (value \div MAX_COORD)
    IN  IF value % CLUSTER_SIZE = 0 /\ value # 0 /\ coin
        THEN result - 1
        ELSE result

\* rank_and_file_calculator; coin is the outcome of random.choice([True, False])
rank_and_file_calculator(value, coin) ==
    LET result == (value \div CLUSTER_SIZE) - (value \div MAX_COORD)
    IN  IF value % CLUSTER_SIZE = 0 /\ value # 0 /\ value # OUTER_EDGE /\ coin
        THEN result - 1
        ELSE result

\* get_cluster_id taking the column from y and the row from x
get_cluster_id_swapped(x, y, cx, cy) ==
    LET col == rank_and_file_calculator(y, cy)
        row == rank_and_file_calculator(x, cx)
    IN  row * GRID_WIDTH + col

\* get_cluster_id; cx and cy are the coins of the two calls
get_cluster_id(x, y, cx, cy) ==
    LET col == rank_and_file_calculator(x, cx)
        row == rank_and_file_calculator(y, cy)
    IN  row * GRID_WIDTH + col

\* every value get_cluster_id can return for one position
ClusterIdOutcomes(x, y) ==
    {get_cluster_id(x, y, cx, cy) : cx \in BOOLEAN, cy \in BOOLEAN}

\* ------------------------------------------------------------ cluster.py
\* Cluster.__init__
Cluster(cluster_id) ==
    [cluster_id |-> cluster_id, nodes |-> <<>>, clusterhead |-> NoNode]

\* Cluster.add_node on cluster cid of cs, for the Node object oid of hp:
\* the pair of the clusters and the heap afterwards
add_node(cs, hp, cid, oid) ==
    << [cs EXCEPT ![cid].nodes = Append(@, oid)],
       [hp EXCEPT ![oid].cluster = cid] >>

\* Cluster.center, in half units: ((col * 5) + 2.5, (row * 5) + 2.5) doubled
center2(cluster_id) ==
    LET col == cluster_id % GRID_WIDTH
        row == cluster_id \div GRID_WIDTH
    IN  << 2 * col * CLUSTER_SIZE + CLUSTER_SIZE,
           2 * row * CLUSTER_SIZE + CLUSTER_SIZE >>

\* node.distance_to(center_node), squared and in half units
CenterDist2(n, cluster_id) ==
    Dist2(2 * n.x, 2 * n.y, center2(cluster_id)[1], center2(cluster_id)[2])

SeqToSet(s) == {s[i] : i \in 1..Len(s)}

\* elect_clusterhead taking the tied node farthest from the centre
elect_clusterhead_farthest(members, cluster_id, hp) ==
    LET ms == SeqToSet(members)
        top_nodes == {m \in ms : \A n \in ms : hp[n].f <= hp[m].f}
    IN  IF Cardinality(top_nodes) = 1 THEN top_nodes
        ELSE {m \in top_nodes : \A n \in top_nodes :
                 CenterDist2(hp[n], cluster_id) <= CenterDist2(hp[m], cluster_id)}

\* elect_clusterhead without the distance stage: random among the top nodes
elect_clusterhead_any_top(members, cluster_id, hp) ==
    LET ms == SeqToSet(members)
    IN  {m \in ms : \A n \in ms : hp[n].f <= hp[m].f}

\* Cluster.elect_clusterhead: the objects random.choice may return, or the
\* single head; members is the cluster's list (not empty), hp the heap
elect_clusterhead(members, cluster_id, hp) ==
    LET ms == SeqToSet(members)
        max_fitness == CHOOSE f \in {hp[m].f : m \in ms} :
                           \A m \in ms : hp[m].f <= f
        top_nodes == {m \in ms : hp[m].f = max_fitness}
        min_distance == CHOOSE d \in {CenterDist2(hp[m], cluster_id) : m \in top_nodes} :
                           \A m \in top_nodes : d <= CenterDist2(hp[m], cluster_id)
        closest_nodes == {m \in top_nodes : CenterDist2(hp[m], cluster_id) = min_distance}
    IN  IF Cardinality(top_nodes) = 1 THEN top_nodes ELSE closest_nodes


\* ------------------------------------------------------------ inputs
\* One line of the input file: x, y, r, e, p
Line(x, y, r, e, p) == <<x, y, r, e, p>>

\* The lines the input files are made of: the tests' chain (0,0) (3,4) (6,8)
\* with r = 5, the tests' unreachable pair (0,0) (10,10) with r = 2, and a
\* node of range 1 between them.  A file may hold a line twice, or two lines
\* with one position: the second is a duplicate.
Lines ==
    { Line(0, 0, 5, 50, 50), Line(3, 4, 5, 50, 50), Line(6, 8, 5, 50, 50),
      Line(0, 0, 2, 50, 50), Line(7, 7, 1, 50, 50), Line(10, 10, 2, 50, 50) }

RECURSIVE SeqsUpTo(_, _)
SeqsUpTo(S, n) ==
    IF n = 0 THEN {<<>>}
    ELSE LET shorter == SeqsUpTo(S, n - 1)
         IN  shorter \cup {Append(s, l) : s \in {t \in shorter : Len(t) = n - 1}, l \in S}

\* An input file: it exists or not; its first line is the count of the node
\* lines that follow
Files ==
    {[exists |-> TRUE, lines |-> ls] : ls \in SeqsUpTo(Lines, MaxNodes)}
        \cup {[exists |-> FALSE, lines |-> <<>>]}

\* ------------------------------------------------------------ state
VARIABLES
    pc,             \* "new": in WSN.__init__ after line 83; "idle": between
                    \* calls; "loop": in find_route at the while test;
                    \* "returned": find_route returned result; "crashed": an
                    \* exception left the call
    mode,           \* WSN.mode
    input_file,     \* the file WSN.input_file names
    heap,           \* the Node objects created so far
    nodes,          \* WSN.nodes: a list of Node objects
    kd_tree,        \* WSN.kd_tree: built or None, and the KDTree's data
    clusters,       \* WSN.clusters
    assign_calls,   \* calls of assign_clusters so far
    src_id,         \* find_route's arguments and locals
    dest_id,
    src_node,
    dest_node,
    route,
    current_node,
    already_visited,
    result,         \* what find_route returned
    exception,      \* the exception that left the call, "" if none
    q_x,            \* a call of get_cluster_id on its own: its arguments
    q_y,
    q_cluster,      \* and what it returned, NoCluster before the call
    call            \* the last call made on a Node or a Cluster object itself

wsn == <<mode, input_file, heap, nodes, kd_tree, clusters, assign_calls>>

frame == <<src_id, dest_id, src_node, dest_node, route, current_node,
           already_visited, result, exception>>

query == <<q_x, q_y, q_cluster, call>>

vars == <<pc, wsn, frame, query>>

ClusterIds == 0..(NUM_CLUSTERS - 1)

\* no call on a Node or Cluster object has been made
NoCall == [op |-> "", self |-> 0, arg |-> 0, ret |-> 0, raised |-> "", again |-> FALSE]

\* ------------------------------------------------------------ wsn.py: WSN
\* the duplicate test finding no position taken
not_dupe_never(ns, x, y) == TRUE

\* the duplicate test of generate_nodes over the list built so far
not_dupe(ns, x, y) == ~ \E k \in 1..Len(ns) : ns[k].x = x /\ ns[k].y = y

\* generate_nodes, user mode: the Node objects of lines i.. of the file,
\* appended to ns; line i makes Node(i, ...) unless its position is taken
RECURSIVE read_lines(_, _, _)
read_lines(ns, lines, i) ==
    IF i >= Len(lines) THEN ns
    ELSE LET l == lines[i + 1]
         IN  IF not_dupe(ns, l[1], l[2])
             THEN read_lines(Append(ns, Node(i, l[1], l[2], l[3], l[4], l[5])), lines, i + 1)
             ELSE read_lines(ns, lines, i + 1)

\* generate_nodes, user mode, on a network whose node list is ns
generate_nodes_user(ns, file) ==
    IF ~ file.exists THEN ns ELSE read_lines(ns, file.lines, 0)

\* generate_nodes, random mode: cands is what the random source yields, one
\* candidate per pass of the while loop; candidate k is tested against the
\* list built so far and becomes Node(i, ...) or is dropped for a retry
RECURSIVE random_nodes(_, _, _, _)
random_nodes(ns, cands, i, k) ==
    IF k > Len(cands) THEN ns
    ELSE LET c == cands[k]
         IN  IF not_dupe(ns, c[1], c[2])
             THEN random_nodes(Append(ns, Node(i, c[1], c[2], c[3], c[4], c[5])),
                               cands, i + 1, k + 1)
             ELSE random_nodes(ns, cands, i, k + 1)

\* generate_nodes, random mode, on a network whose node list is ns
generate_nodes_random(ns, cands) == random_nodes(ns, cands, 0, 1)

\* the random sources of one call, of at most n candidates: num_nodes is at
\* least 1 and the call ends with the candidate that is accepted as node
\* num_nodes - 1 (randint(10, 100) is scaled down to the bound, retries
\* included)
RandomStreams(ns, n) ==
    {c \in SeqsUpTo(Lines, n) :
        /\ Len(c) >= 1
        /\ not_dupe(random_nodes(ns, SubSeq(c, 1, Len(c) - 1), 0, 1),
                    c[Len(c)][1], c[Len(c)][2])}

\* assign_clusters from list position i on: every pair of clusters and heap
\* the loop can end with, one per outcome of the random tie-breaks
RECURSIVE assign_from(_, _, _, _)
assign_from(cs, hp, ns, i) ==
    IF i > Len(ns) THEN {<<cs, hp>>}
    ELSE UNION { assign_from(add_node(cs, hp, cid, ns[i])[1],
                             add_node(cs, hp, cid, ns[i])[2], ns, i + 1) :
                   cid \in ClusterIdOutcomes(hp[ns[i]].x, hp[ns[i]].y) }

\* WSN.assign_clusters
assign_clusters_outcomes(cs, hp, ns) == assign_from(cs, hp, ns, 1)

\* WSN.build_kd_tree: a new tree over the positions, only if the list is
\* not empty; otherwise the attribute keeps what it had
build_kd_tree_result(kd, hp, ns) ==
    IF Len(ns) > 0
    THEN [built |-> TRUE, data |-> [i \in 1..Len(ns) |-> <<hp[ns[i]].x, hp[ns[i]].y>>]]
    ELSE kd

\* WSN.elect_clusterheads from cluster cid on: every clusters value the loop
\* can end with
RECURSIVE elect_from(_, _, _)
elect_from(cs, hp, cid) ==
    IF cid >= NUM_CLUSTERS THEN {cs}
    ELSE IF Len(cs[cid].nodes) = 0 THEN elect_from(cs, hp, cid + 1)
    ELSE UNION { elect_from([cs EXCEPT ![cid].clusterhead = h], hp, cid + 1) :
                   h \in elect_clusterhead(cs[cid].nodes, cid, hp) }

elect_clusterheads_outcomes(cs, hp) == elect_from(cs, hp, 0)

\* get_node_by_id taking the id for a list position
get_node_by_position(hp, ns, node_id) ==
    IF node_id < Len(ns) THEN ns[node_id + 1] ELSE NoNode

\* WSN.get_node_by_id: the first object of the list with that id, or None
get_node_by_id(hp, ns, node_id) ==
    IF \E i \in 1..Len(ns) : hp[ns[i]].node_id = node_id
    THEN ns[CHOOSE i \in 1..Len(ns) :
                /\ hp[ns[i]].node_id = node_id
                /\ \A j \in 1..(i - 1) : hp[ns[j]].node_id # node_id]
    ELSE NoNode

\* query_ball_point leaving out the points at distance r
query_ball_point_open(kd, x, y, r) ==
    {i \in 0..(Len(kd.data) - 1) :
        Dist2(kd.data[i + 1][1], kd.data[i + 1][2], x, y) < r * r}

\* KDTree.query_ball_point(position, r): the 0-based indices of the data
\* points at distance at most r
query_ball_point(kd, x, y, r) ==
    {i \in 0..(Len(kd.data) - 1) :
        Dist2(kd.data[i + 1][1], kd.data[i + 1][2], x, y) <= r * r}

\* the test of line 230: is the destination's id among the indices found
dest_in_neighbors(hp, dest, neighbors) == hp[dest].node_id \in neighbors

\* the filter of line 245: the indices that are not visited ids
unvisited(neighbors, visited) == {idx \in neighbors : idx \notin visited}

\* lines 257-258: the objects the sort can put first, those of least distance
\* to the destination (the order among equal distances is the tree's)
closest_to_dest(hp, ns, dest, neighbors) ==
    {ns[idx + 1] : idx \in
        {i \in neighbors : \A j \in neighbors :
            distance_to2(hp[ns[i + 1]], hp[dest]) <= distance_to2(hp[ns[j + 1]], hp[dest])}}

\* WSN.get_nearest_node_kdtree: every outcome of the call, as
\* [raised, node]: the exception raised ("" if none) and the object returned
get_nearest_node_kdtree(kd, hp, ns, current, dest, visited) ==
    LET neighbors_within_range ==
            query_ball_point(kd, hp[current].x, hp[current].y, hp[current].r)
        remaining == unvisited(neighbors_within_range, visited)
    IN  IF dest = NoNode
        THEN {[raised |-> "AttributeError", node |-> NoNode]}
        ELSE IF dest_in_neighbors(hp, dest, neighbors_within_range)
        THEN {[raised |-> "", node |-> dest]}
        ELSE IF remaining = {}
        THEN {[raised |-> "", node |-> NoNode]}
        ELSE IF \E idx \in remaining : idx >= Len(ns)
        THEN {[raised |-> "IndexError", node |-> NoNode]}
        ELSE {[raised |-> "", node |-> n] : n \in closest_to_dest(hp, ns, dest, remaining)}

\* the test of line 202 without its second half
no_next_node(hp, next_node, visited) == next_node = NoNode

\* the test of line 202: there is no next node, or its id is a visited one
no_valid_next(hp, next_node, visited) ==
    next_node = NoNode \/ hp[next_node].node_id \in visited

\* line 211: the ids of the route's nodes
RouteIds(hp, rt) == [i \in 1..Len(rt) |-> hp[rt[i]].node_id]

Init ==
    /\ pc = "new"
    /\ mode \in {"user", "random"}
    /\ input_file \in Files
    /\ mode = "random" => input_file = [exists |-> FALSE, lines |-> <<>>]
    /\ heap = <<>>
    /\ nodes = <<>>
    /\ kd_tree = [built |-> FALSE, data |-> <<>>]
    /\ clusters = [i \in ClusterIds |-> Cluster(i)]
    /\ assign_calls = 0
    /\ src_id = 0
    /\ dest_id = 0
    /\ src_node = NoNode
    /\ dest_node = NoNode
    /\ route = <<>>
    /\ current_node = NoNode
    /\ already_visited = {}
    /\ result = <<>>
    /\ exception = ""
    /\ q_x = 0
    /\ q_y = 0
    /\ q_cluster = NoCluster
    /\ call = NoCall

\* the rest of WSN.__init__ once the node list ns is generated:
\* assign_clusters, build_kd_tree, elect_clusterheads
init_with(ns) ==
    LET oids == [i \in 1..Len(ns) |-> Len(heap) + i]
        hp0 == heap \o ns
    IN  \E a \in assign_clusters_outcomes(clusters, hp0, oids) :
        \E cs \in elect_clusterheads_outcomes(a[1], a[2]) :
            /\ nodes' = oids
            /\ heap' = a[2]
            /\ kd_tree' = build_kd_tree_result(kd_tree, a[2], oids)
            /\ clusters' = cs
            /\ assign_calls' = assign_calls + 1
            /\ pc' = "idle"
            /\ UNCHANGED <<mode, input_file, frame, query>>

\* WSN.__init__, user mode
WSN_init_user ==
    /\ pc = "new"
    /\ mode = "user"
    /\ init_with(generate_nodes_user(<<>>, input_file))

\* WSN.__init__, random mode
WSN_init_random ==
    /\ pc = "new"
    /\ mode = "random"
    /\ \E cands \in RandomStreams(<<>>, MaxNodes) : init_with(generate_nodes_random(<<>>, cands))

\* a call of WSN.assign_clusters on the constructed network
assign_clusters ==
    /\ pc = "idle"
    /\ assign_calls < MaxAssign
    /\ \E a \in assign_clusters_outcomes(clusters, heap, nodes) :
        /\ clusters' = a[1]
        /\ heap' = a[2]
    /\ assign_calls' = assign_calls + 1
    /\ UNCHANGED <<pc, mode, input_file, nodes, kd_tree, frame, query>>

\* a call of WSN.build_kd_tree on the constructed network
build_kd_tree ==
    /\ pc = "idle"
    /\ kd_tree' = build_kd_tree_result(kd_tree, heap, nodes)
    /\ UNCHANGED <<pc, mode, input_file, heap, nodes, clusters, assign_calls, frame, query>>

\* a call of WSN.elect_clusterheads on the constructed network
elect_clusterheads ==
    /\ pc = "idle"
    /\ \E cs \in elect_clusterheads_outcomes(clusters, heap) : clusters' = cs
    /\ UNCHANGED <<pc, mode, input_file, heap, nodes, kd_tree, assign_calls, frame, query>>

\* a call of WSN.generate_nodes on the constructed network: the nodes it
\* accepts are appended to the list; nothing else of the network changes
generate_nodes ==
    /\ pc = "idle"
    /\ LET ns0 == [i \in 1..Len(nodes) |-> heap[nodes[i]]]
           outcomes == IF mode = "random"
                       THEN {generate_nodes_random(ns0, c) : c \in RandomStreams(ns0, MaxRegen)}
                       ELSE {generate_nodes_user(ns0, input_file)}
       IN  \E ns \in outcomes :
               LET added == SubSeq(ns, Len(ns0) + 1, Len(ns))
               IN  /\ heap' = heap \o added
                   /\ nodes' = nodes \o [i \in 1..Len(added) |-> Len(heap) + i]
    /\ UNCHANGED <<pc, mode, input_file, kd_tree, clusters, assign_calls, frame, query>>

\* the ids a caller passes: those of the lines, and one beyond them
Ids == 0..MaxNodes

\* find_route leaves with an exception
raise(e) ==
    /\ pc' = "crashed"
    /\ exception' = e

\* find_route returns r
return(r) ==
    /\ pc' = "returned"
    /\ result' = r

\* find_route assigning the clusters anew before it starts
find_route_call_reassigning ==
    /\ pc = "idle"
    /\ \E s \in Ids, d \in Ids :
        /\ src_id' = s
        /\ dest_id' = d
        /\ src_node' = get_node_by_id(heap, nodes, s)
        /\ dest_node' = get_node_by_id(heap, nodes, d)
        /\ route' = <<get_node_by_id(heap, nodes, s)>>
        /\ current_node' = get_node_by_id(heap, nodes, s)
    /\ \E a \in assign_clusters_outcomes(clusters, heap, nodes) :
        /\ clusters' = a[1]
        /\ heap' = a[2]
    /\ pc' = "loop"
    /\ result' = <<>>
    /\ exception' = ""
    /\ already_visited' = {}
    /\ UNCHANGED <<mode, input_file, nodes, kd_tree, assign_calls, query>>

\* find_route, lines 181-193: the call up to the while loop
find_route_call ==
    /\ pc = "idle"
    /\ \E s \in Ids, d \in Ids :
        /\ src_id' = s
        /\ dest_id' = d
        /\ IF ~ kd_tree.built
           THEN /\ raise("AttributeError")
                /\ result' = <<>>
                /\ src_node' = NoNode
                /\ dest_node' = NoNode
                /\ route' = <<>>
                /\ current_node' = NoNode
           ELSE IF Len(kd_tree.data) <= 1
           THEN /\ return(<<>>)
                /\ exception' = ""
                /\ src_node' = NoNode
                /\ dest_node' = NoNode
                /\ route' = <<>>
                /\ current_node' = NoNode
           ELSE /\ src_node' = get_node_by_id(heap, nodes, s)
                /\ dest_node' = get_node_by_id(heap, nodes, d)
                /\ route' = <<get_node_by_id(heap, nodes, s)>>
                /\ current_node' = get_node_by_id(heap, nodes, s)
                /\ pc' = "loop"
                /\ result' = <<>>
                /\ exception' = ""
    /\ already_visited' = {}
    /\ UNCHANGED <<wsn, query>>

\* find_route, lines 196-211: the while test, then either the return of
\* line 211 or one pass of the loop body
find_route_loop ==
    /\ pc = "loop"
    /\ IF current_node = dest_node
       THEN /\ IF \E i \in 1..Len(route) : route[i] = NoNode
               THEN raise("AttributeError") /\ UNCHANGED result
               ELSE return(RouteIds(heap, route)) /\ UNCHANGED exception
            /\ UNCHANGED <<route, current_node, already_visited>>
       ELSE IF current_node = NoNode
       THEN /\ raise("AttributeError")
            /\ UNCHANGED <<route, current_node, already_visited, result>>
       ELSE LET visited == already_visited \cup {heap[current_node].node_id}
            IN  /\ already_visited' = visited
                /\ \E o \in get_nearest_node_kdtree(kd_tree, heap, nodes,
                                                     current_node, dest_node, visited) :
                    IF o.raised # ""
                    THEN /\ raise(o.raised)
                         /\ UNCHANGED <<route, current_node, result>>
                    ELSE IF no_valid_next(heap, o.node, visited)
                    THEN /\ return(<<>>)
                         /\ UNCHANGED <<route, current_node, exception>>
                    ELSE /\ route' = Append(route, o.node)
                         /\ current_node' = o.node
                         /\ UNCHANGED <<pc, result, exception>>
    /\ UNCHANGED <<wsn, query, src_id, dest_id, src_node, dest_node>>

\* the caller has taken find_route's result: the call's frame is gone
find_route_done ==
    /\ pc = "returned"
    /\ pc' = "idle"
    /\ src_id' = 0
    /\ dest_id' = 0
    /\ src_node' = NoNode
    /\ dest_node' = NoNode
    /\ route' = <<>>
    /\ current_node' = NoNode
    /\ already_visited' = {}
    /\ result' = <<>>
    /\ exception' = ""
    /\ UNCHANGED <<wsn, query>>

\* get_cluster_id called on its own, on a position of the plane
InitGrid ==
    /\ pc = "new"
    /\ mode = "user"
    /\ input_file = [exists |-> FALSE, lines |-> <<>>]
    /\ heap = <<>>
    /\ nodes = <<>>
    /\ kd_tree = [built |-> FALSE, data |-> <<>>]
    /\ clusters = [i \in ClusterIds |-> Cluster(i)]
    /\ assign_calls = 0
    /\ src_id = 0
    /\ dest_id = 0
    /\ src_node = NoNode
    /\ dest_node = NoNode
    /\ route = <<>>
    /\ current_node = NoNode
    /\ already_visited = {}
    /\ result = <<>>
    /\ exception = ""
    /\ q_x \in 0..MAX_COORD
    /\ q_y \in 0..MAX_COORD
    /\ q_cluster = NoCluster
    /\ call = NoCall

get_cluster_id_call ==
    /\ q_cluster = NoCluster
    /\ \E cx \in BOOLEAN, cy \in BOOLEAN : q_cluster' = get_cluster_id(q_x, q_y, cx, cy)
    /\ UNCHANGED <<pc, wsn, frame, q_x, q_y, call>>

NextGrid == get_cluster_id_call

SpecGrid == InitGrid /\ [][NextGrid]_vars

\* the network's life: the constructor, then calls of its methods
NextLife ==
    \/ WSN_init_user
    \/ WSN_init_random
    \/ assign_clusters
    \/ build_kd_tree
    \/ elect_clusterheads

SpecLife == Init /\ [][NextLife]_vars

\* ---------------------------------------- Node and Cluster on their own
\* the most Node objects a caller constructs
MaxObjects == 4

\* the nodes of test_node_distance, and nodes with a position off the plane,
\* with no radius and with no energy: x, y, r, e, p
PointNodes ==
    << Line(0, 0, 5, 50, 50), Line(3, 4, 5, 50, 50), Line(6, 8, 5, 50, 50),
       Line(9, 12, 5, 50, 50), Line(8, 0, 5, 50, 50), Line(3, 15, 5, 50, 50),
       Line(25, -3, 5, 50, 50), Line(1, 1, 0, 50, 50), Line(2, 2, 5, 0, 50) >>

\* the nodes of test_cluster_head_election, and two nodes whose fitness is
\* 1.8 in exact arithmetic but two different doubles
ElectionNodes ==
    << Line(5, 5, 4, 70, 40), Line(6, 6, 3, 80, 50), Line(7, 7, 2, 60, 20),
       Line(5, 9, 3, 80, 50), Line(9, 9, 3, 80, 50),
       Line(7, 8, 1, 1, 5), Line(5, 5, 1, 2, 3) >>

\* the cluster of test_cluster_head_election
TestCluster == 5

\* a call op(self, arg) on an object that returned ret or raised
Called(op, self, arg, ret, raised, again) ==
    [op |-> op, self |-> self, arg |-> arg, ret |-> ret, raised |-> raised,
     again |-> again]

\* Node(k - 1, ...) for entry k of the universe, as the tests number their
\* nodes; the caller constructs them in the universe's order
Node_init(universe) ==
    /\ Len(heap) < MaxObjects
    /\ \E k \in 1..Len(universe) :
        /\ \A o \in 1..Len(heap) : heap[o].node_id < k - 1
        /\ heap' = Append(heap, Node(k - 1, universe[k][1], universe[k][2],
                                     universe[k][3], universe[k][4], universe[k][5]))
        /\ call' = Called("Node", Len(heap) + 1, 0, 0, "", FALSE)
    /\ UNCHANGED <<pc, mode, input_file, nodes, kd_tree, clusters, assign_calls,
                   frame, q_x, q_y, q_cluster>>

\* a.distance_to(b) on two constructed nodes
Node_distance_to ==
    /\ \E a \in 1..Len(heap), b \in 1..Len(heap) :
        call' = Called("distance_to", a, b, distance_to(heap[a], heap[b]), "", FALSE)
    /\ UNCHANGED <<pc, wsn, frame, q_x, q_y, q_cluster>>

\* cluster.add_node(node) for a node the cluster does not hold yet
Cluster_add_node ==
    /\ \E o \in 1..Len(heap) :
        /\ o \notin SeqToSet(clusters[TestCluster].nodes)
        /\ clusters' = add_node(clusters, heap, TestCluster, o)[1]
        /\ heap' = add_node(clusters, heap, TestCluster, o)[2]
        /\ call' = Called("add_node", TestCluster, o, 0, "", FALSE)
    /\ UNCHANGED <<pc, mode, input_file, nodes, kd_tree, assign_calls,
                   frame, q_x, q_y, q_cluster>>

\* cluster.elect_clusterhead(): max() of line 49 raises ValueError on an
\* empty member list; again tells that the call before was an election too
Cluster_elect_clusterhead ==
    /\ IF Len(clusters[TestCluster].nodes) = 0
       THEN /\ call' = Called("elect_clusterhead", TestCluster, 0, NoNode, "ValueError", FALSE)
            /\ UNCHANGED clusters
       ELSE \E h \in elect_clusterhead(clusters[TestCluster].nodes, TestCluster, heap) :
            /\ clusters' = [clusters EXCEPT ![TestCluster].clusterhead = h]
            /\ call' = Called("elect_clusterhead", TestCluster, 0, h, "",
                              call.op = "elect_clusterhead" /\ call.raised = "")
    /\ UNCHANGED <<pc, mode, input_file, heap, nodes, kd_tree, assign_calls,
                   frame, q_x, q_y, q_cluster>>

\* no network: objects are constructed and called directly
InitUnit == InitGrid /\ q_x = 0 /\ q_y = 0

NextNode ==
    \/ Node_init(PointNodes)
    \/ Node_distance_to

SpecNode == InitUnit /\ [][NextNode]_vars

NextCluster ==
    \/ Node_init(ElectionNodes)
    \/ Cluster_add_node
    \/ Cluster_elect_clusterhead

SpecCluster == InitUnit /\ [][NextCluster]_vars

\* the constructor, then route queries
Next ==
    \/ WSN_init_user
    \/ WSN_init_random
    \/ find_route_call
    \/ find_route_loop
    \/ find_route_done

Spec == Init /\ [][Next]_vars

\* the constructor, then calls of every method of the network
NextAll ==
    \/ WSN_init_user
    \/ WSN_init_random
    \/ assign_clusters
    \/ build_kd_tree
    \/ elect_clusterheads
    \/ find_route_call
    \/ find_route_loop
    \/ find_route_done

SpecAll == Init /\ [][NextAll]_vars

\* self.wsn.nodes.clear(), as the tests' setUp does on a constructed network
nodes_clear ==
    /\ pc = "idle"
    /\ nodes' = <<>>
    /\ call' = Called("nodes.clear", 0, 0, 0, "", FALSE)
    /\ UNCHANGED <<pc, mode, input_file, heap, kd_tree, clusters, assign_calls,
                   frame, q_x, q_y, q_cluster>>

\* self.wsn.build_kd_tree() called by a test, the call kept in call
build_kd_tree_call ==
    /\ pc = "idle"
    /\ kd_tree' = build_kd_tree_result(kd_tree, heap, nodes)
    /\ call' = Called("build_kd_tree", 0, 0, 0, "", FALSE)
    /\ UNCHANGED <<pc, mode, input_file, heap, nodes, clusters, assign_calls,
                   frame, q_x, q_y, q_cluster>>

\* the constructor, then what the tests do to the network before they route
NextSetUp ==
    \/ WSN_init_user
    \/ WSN_init_random
    \/ nodes_clear
    \/ build_kd_tree_call

SpecSetUp == Init /\ [][NextSetUp]_vars

\* the constructor, then further calls of generate_nodes and build_kd_tree
NextRegen ==
    \/ WSN_init_user
    \/ WSN_init_random
    \/ generate_nodes
    \/ build_kd_tree

SpecRegen == Init /\ [][NextRegen]_vars

\* ------------------------------------------------------------ claims
\* a place in a cluster's member list: <<cluster id, position>>
Slots(cs) == UNION {{<<c, i>> : i \in 1..Len(cs[c].nodes)} : c \in ClusterIds}

\* the places that hold the Node object o
SlotsOf(cs, o) == {s \in Slots(cs) : cs[s[1]].nodes[s[2]] = o}

\* b is within a's radius
InRange(a, b) == distance_to2(a, b) <= a.r * a.r

\* find_route has been called and has ended
CallEnded == pc \in {"returned", "crashed"}

Unknown(node_id) == get_node_by_id(heap, nodes, node_id) = NoNode

\* C1: after assign_clusters has run, every node of the list is in exactly
\* one place of exactly one cluster, and the clusters hold nothing else.
C1_Partition ==
    (pc = "idle" /\ assign_calls >= 1) =>
        /\ \A i \in 1..Len(nodes) : Cardinality(SlotsOf(clusters, nodes[i])) = 1
        /\ \A s \in Slots(clusters) : clusters[s[1]].nodes[s[2]] \in SeqToSet(nodes)

\* C2: every call of assign_clusters clears and repopulates the clusters:
\* after it the clusters hold as many entries as the list has nodes (nothing
\* is left of an earlier assignment), no node twice in a cluster and no
\* node in two clusters.
C2_ClearsAndRepopulates ==
    [][assign_calls' = assign_calls + 1 =>
        /\ Cardinality(Slots(clusters')) = Len(nodes')
        /\ \A i \in 1..Len(nodes') :
              \A s, t \in SlotsOf(clusters', nodes'[i]) : s = t]_vars

\* C3: for every position of the plane, the edges x = 20 and y = 20
\* included, and every outcome of the tie-breaks, get_cluster_id returns an
\* index in 0..15.
C3_InBounds ==
    q_cluster # NoCluster => q_cluster \in 0..(NUM_CLUSTERS - 1)

\* the outer edge in x and an interior boundary in y, broken to the lower cell
C3_Witness == q_x = MAX_COORD /\ q_y = 2 * CLUSTER_SIZE /\ q_cluster = 7

\* C4: every pass of find_route's loop body adds one id to the visited set,
\* which never holds more ids than the network has nodes: the loop runs at
\* most N times.
C4_VisitedGrows ==
    [][(pc = "loop" /\ current_node # dest_node /\ current_node # NoNode) =>
        /\ already_visited \subseteq already_visited'
        /\ Cardinality(already_visited') = Cardinality(already_visited) + 1
        /\ Cardinality(already_visited') <= Len(nodes)]_vars

\* a route found after three passes of the loop
C4_Witness ==
    pc = "returned" /\ Cardinality(already_visited) = 3 /\ Len(result) = 4

\* C5: a result that is not empty is the ids of the route's nodes in order,
\* starts with source_id and ends with dest_id; with source equal to
\* destination it is the one-element list.
C5_RouteEnds ==
    /\ (pc = "returned" /\ result # <<>>) =>
          /\ result = RouteIds(heap, route)
          /\ result[1] = src_id
          /\ result[Len(result)] = dest_id
    /\ (pc = "returned" /\ src_id = dest_id /\ src_node # NoNode) =>
          result = <<src_id>>

\* a route of three nodes in a network that skipped a duplicate line: the
\* source's id is not its list position
C5_Witness == pc = "returned" /\ Len(result) = 3 /\ result[1] # src_node - 1

\* C6: for two nodes within each other's range, find_route from one to the
\* other returns [source, dest].
C6_DirectRange ==
    ( /\ CallEnded
      /\ src_node # NoNode /\ dest_node # NoNode /\ src_node # dest_node
      /\ InRange(heap[src_node], heap[dest_node])
      /\ InRange(heap[dest_node], heap[src_node]) ) =>
        (pc = "returned" /\ result = <<src_id, dest_id>>)

\* the node list is a chain: each node within range of the next, the two
\* ends out of each other's range
IsChain ==
    /\ Len(nodes) >= 3
    /\ \A i \in 1..(Len(nodes) - 1) : InRange(heap[nodes[i]], heap[nodes[i + 1]])
    /\ ~ InRange(heap[nodes[1]], heap[nodes[Len(nodes)]])
    /\ ~ InRange(heap[nodes[Len(nodes)]], heap[nodes[1]])

\* C7: on a chain n0..nk, find_route(n0, nk) returns the whole chain in order.
C7_Chain ==
    ( /\ CallEnded
      /\ IsChain
      /\ src_node = nodes[1] /\ dest_node = nodes[Len(nodes)] ) =>
        (pc = "returned" /\ result = RouteIds(heap, nodes))

\* at the current hop no node but the current one is in range and unvisited
NoCandidate ==
    \A i \in 1..Len(nodes) :
        ( /\ nodes[i] # current_node
          /\ InRange(heap[current_node], heap[nodes[i]]) ) =>
            heap[nodes[i]].node_id \in already_visited \cup {heap[current_node].node_id}

\* C8: a hop at which the destination is out of range and no unvisited node
\* but the current one is in range ends the call with the empty list.
C8_StuckReturnsEmpty ==
    [][( /\ pc = "loop"
         /\ current_node # NoNode /\ dest_node # NoNode
         /\ current_node # dest_node
         /\ ~ InRange(heap[current_node], heap[dest_node])
         /\ NoCandidate ) =>
        (pc' = "returned" /\ result' = <<>>)]_vars

\* C9: a call with an id no node has raises nothing and takes no forwarding
\* step; what it returns is a failure.
C9_UnknownNode ==
    ( /\ pc \in {"loop", "returned", "crashed"}
      /\ kd_tree.built /\ Len(kd_tree.data) >= 2
      /\ (Unknown(src_id) \/ Unknown(dest_id)) ) =>
        /\ exception = ""
        /\ already_visited = {}
        /\ Len(route) <= 1
        /\ pc = "returned" => result = <<>>

\* C10: on a network of fewer than two nodes find_route returns the failure
\* result at once: it neither enters the loop nor raises.
C10_TooSmall ==
    (Len(nodes) < 2 /\ pc \in {"loop", "returned", "crashed"}) =>
        (pc = "returned" /\ result = <<>>)

\* the members of cluster c
Members(c) == SeqToSet(clusters[c].nodes)

\* the members of cluster c whose f no member's f exceeds
TopMembers(c) == {m \in Members(c) : \A n \in Members(c) : heap[n].f <= heap[m].f}

\* the squared distance of node n from ((c mod 4)*5 + 2.5, (c div 4)*5 + 2.5),
\* in quarters
CentreDist4(n, c) ==
    (2 * n.x - (10 * (c % 4) + 5)) * (2 * n.x - (10 * (c % 4) + 5))
        + (2 * n.y - (10 * (c \div 4) + 5)) * (2 * n.y - (10 * (c \div 4) + 5))

\* the top members of cluster c that no top member is nearer the centre than
ClosestTop(c) ==
    {m \in TopMembers(c) : \A n \in TopMembers(c) :
        CentreDist4(heap[m], c) <= CentreDist4(heap[n], c)}

\* the last call was an election on a cluster with members, and it returned
Elected == call.op = "elect_clusterhead" /\ call.raised = ""

\* C11: after elect_clusterhead on a cluster with members, the head is the
\* node returned, a member of maximum f, and among the members of maximum f
\* one of least distance from the cluster's centre (so the only one, when a
\* stage leaves one); the four nodes of the test with f 37.6, 43.2, 28.8,
\* 43.2 in cluster 5 elect node 1, the 43.2 node nearer to (7.5, 7.5).
C11_Election ==
    Elected =>
        LET c == call.self
            h == clusters[c].clusterhead
        IN  /\ h = call.ret
            /\ h \in Members(c)
            /\ h \in TopMembers(c)
            /\ h \in ClosestTop(c)
            /\ {heap[m].node_id : m \in Members(c)} = {0, 1, 2, 3} => heap[h].node_id = 1

\* the election of the test: nodes 0..3 are the members, node 1 is the head
C11_Witness ==
    /\ Elected
    /\ {heap[m].node_id : m \in Members(TestCluster)} = {0, 1, 2, 3}
    /\ Cardinality(TopMembers(TestCluster)) = 2
    /\ heap[clusters[TestCluster].clusterhead].node_id = 1

\* C12: an election that follows an election on the same cluster, with no
\* other call between them, leaves the head as it was, whenever the fitness
\* stage or the distance stage leaves one candidate.
C12_Idempotent ==
    [][( /\ call'.op = "elect_clusterhead" /\ call'.raised = "" /\ call'.again
         /\ Cardinality(ClosestTop(call'.self)) = 1 ) =>
        clusters'[call'.self].clusterhead = clusters[call'.self].clusterhead]_vars

\* a second election in a row on a cluster where two members tie on f and
\* the distance stage decides
C12_Witness ==
    /\ Elected /\ call.again
    /\ Cardinality(TopMembers(TestCluster)) = 2
    /\ Cardinality(ClosestTop(TestCluster)) = 1

\* C13: in every state a cluster's head is None exactly if the cluster has
\* no member, and a head that is set is a member of its cluster.
C13_HeadIffMembers ==
    \A c \in ClusterIds :
        /\ clusters[c].clusterhead = NoNode <=> Len(clusters[c].nodes) = 0
        /\ clusters[c].clusterhead # NoNode => clusters[c].clusterhead \in Members(c)

\* C14: elect_clusterhead on a cluster without members raises nothing,
\* returns None and leaves the head None.
C14_EmptyCluster ==
    (call.op = "elect_clusterhead" /\ Len(clusters[call.self].nodes) = 0) =>
        /\ call.raised = ""
        /\ call.ret = NoNode
        /\ clusters[call.self].clusterhead = NoNode

\* C15: no Node object exists whose position is off the plane or whose r, e
\* or p is not positive: constructing one fails.
C15_WellFormed ==
    \A o \in 1..Len(heap) :
        /\ heap[o].x \in 0..MAX_COORD
        /\ heap[o].y \in 0..MAX_COORD
        /\ heap[o].r > 0
        /\ heap[o].e > 0
        /\ heap[o].p > 0

\* the positions of the node list, in list order
Positions == [i \in 1..Len(nodes) |-> <<heap[nodes[i]].x, heap[nodes[i]].y>>]

\* C16: in every state in which find_route can be called, the KD-tree holds
\* the positions of the current node list, in list order.
C16_NeverStale ==
    pc = "idle" => kd_tree.data = Positions

\* |v|
Abs(v) == IF v < 0 THEN -v ELSE v

\* C17: every node's f is 0.4*r + 0.4*e + 0.2*p of its own r, e and p, to
\* the accuracy of a double (2^-46 here); r = 3, e = 80, p = 50 gives the
\* double 43.2; and no step of the network changes the r, e, p or f of a
\* node.
C17_FitnessFixed ==
    /\ Fitness(3, 80, 50) = FloatCode(RoundToDouble(432, 0))
    /\ [][\A o \in 1..Len(heap') :
            /\ Tenths(heap'[o].f) = 4 * heap'[o].r + 4 * heap'[o].e + 2 * heap'[o].p
            /\ Abs(Deviation(heap'[o].f)) <= 2560
            /\ o <= Len(heap) =>
                  /\ heap'[o].r = heap[o].r
                  /\ heap'[o].e = heap[o].e
                  /\ heap'[o].p = heap[o].p
                  /\ heap'[o].f = heap[o].f]_vars

\* a route was found on a network whose clusters were assigned twice
C17_Witness ==
    /\ pc = "returned" /\ assign_calls = 2 /\ Len(result) = 3
    /\ \A o \in 1..Len(heap) : Tenths(heap[o].f) = 320

\* C18: a.distance_to(b) is b.distance_to(a), its square is dx^2 + dy^2 (to
\* the thousandth the value is kept in), and the offsets (3,4), (6,8) and
\* (9,12) give exactly 5, 10 and 15.
C18_Euclidean ==
    call.op = "distance_to" =>
        LET a == heap[call.self]
            b == heap[call.arg]
            dx == Abs(a.x - b.x)
            dy == Abs(a.y - b.y)
            d == call.ret
        IN  /\ d = distance_to(b, a)
            /\ d * d <= (dx * dx + dy * dy) * 1000 * 1000
            /\ (dx * dx + dy * dy) * 1000 * 1000 < (d + 1) * (d + 1)
            /\ <<dx, dy>> = <<3, 4>> => d = 5 * 1000
            /\ <<dx, dy>> = <<6, 8>> => d = 10 * 1000
            /\ <<dx, dy>> = <<9, 12>> => d = 15 * 1000

\* the distance from (9,12) back to (0,0)
C18_Witness ==
    /\ call.op = "distance_to"
    /\ heap[call.self].x = 9 /\ heap[call.self].y = 12
    /\ heap[call.arg].x = 0 /\ heap[call.arg].y = 0
    /\ call.ret = 15 * 1000

\* C19: after generate_nodes no two nodes of the list have one position; in
\* random mode every pass of the for loop has produced its node (the ids of
\* a call run 0, 1, 2, ... with none left out), in user mode the list has
\* one node per distinct position of the file.
C19_NoSharedPosition ==
    pc = "idle" =>
        /\ \A i, j \in 1..Len(nodes) : i # j => Positions[i] # Positions[j]
        /\ mode = "random" =>
              /\ Len(nodes) >= 1
              /\ \A i \in 1..Len(nodes) :
                    \/ heap[nodes[i]].node_id = 0
                    \/ i > 1 /\ heap[nodes[i]].node_id = heap[nodes[i - 1]].node_id + 1
        /\ mode = "user" =>
              Len(nodes) = Cardinality({<<input_file.lines[k][1], input_file.lines[k][2]>> :
                                           k \in 1..Len(input_file.lines)})

\* a file of four lines of which one was skipped
C19_Witness ==
    /\ pc = "idle" /\ mode = "user"
    /\ Len(input_file.lines) = 4 /\ Len(nodes) = 3

\* C20: in a returned route every node is within the radius of the node
\* before it.
C20_HopsInRange ==
    (pc = "returned" /\ result # <<>>) =>
        \A i \in 1..(Len(route) - 1) : InRange(heap[route[i]], heap[route[i + 1]])

\* find_route is at a hop: the loop body is about to run on two known nodes
AtHop ==
    /\ pc = "loop"
    /\ current_node # NoNode /\ dest_node # NoNode
    /\ current_node # dest_node

\* the step appends node n to the route and makes it the current node
HopTo(n) == route' = Append(route, n) /\ current_node' = n

\* C21: at a hop where the destination is within the current node's radius
\* the destination is appended to the route and becomes the current node
\* (the loop then ends); and a hop to the destination is taken only when it
\* is within the radius.
C21_DestShortcut ==
    [][AtHop =>
        /\ InRange(heap[current_node], heap[dest_node]) => HopTo(dest_node)
        /\ HopTo(dest_node) => InRange(heap[current_node], heap[dest_node])]_vars

\* the nodes a hop may go to: in the current node's radius, not the current
\* node, with an id that is not visited once the current node's is
HopCandidates ==
    {m \in SeqToSet(nodes) :
        /\ m # current_node
        /\ InRange(heap[current_node], heap[m])
        /\ heap[m].node_id \notin already_visited \cup {heap[current_node].node_id}}

\* C22: at a hop where the destination is out of range, the node the route
\* goes on with is a hop candidate, and no hop candidate is nearer to the
\* destination.
C22_GreedyHop ==
    [][(AtHop /\ ~ InRange(heap[current_node], heap[dest_node])) =>
        \A n \in 1..Len(heap) :
            HopTo(n) =>
                /\ n \in HopCandidates
                /\ \A m \in HopCandidates :
                      distance_to2(heap[n], heap[dest_node])
                          <= distance_to2(heap[m], heap[dest_node])]_vars

IdsArePositions == \A i \in 1..Len(nodes) : heap[nodes[i]].node_id = i - 1

\* b is at distance exactly a's radius from a
AtRadius(a, b) == distance_to2(a, b) = a.r * a.r

\* the network of test_routing: (0,0), (3,4), (6,8), each with radius 5
IsTestChain ==
    /\ Len(nodes) = 3
    /\ Positions = << <<0, 0>>, <<3, 4>>, <<6, 8>> >>
    /\ \A i \in 1..3 : heap[nodes[i]].r = 5

\* C24: a node at distance exactly r of the current node is in range: where
\* a node's id is its list position, a destination at exactly the radius is
\* the next hop, and find_route(0, 2) on (0,0), (3,4), (6,8) with radius 5
\* returns [0, 1, 2], two hops of exactly 5.
C24_InclusiveRange ==
    /\ [][(AtHop /\ IdsArePositions /\ AtRadius(heap[current_node], heap[dest_node])) =>
            HopTo(dest_node)]_vars
    /\ []((pc = "returned" /\ IsTestChain /\ IdsArePositions /\ src_id = 0 /\ dest_id = 2) =>
            result = <<0, 1, 2>>)

\* find_route(0, 2) has returned on the network of test_routing
C24_Witness ==
    /\ pc = "returned" /\ IsTestChain /\ IdsArePositions
    /\ src_id = 0 /\ dest_id = 2 /\ result = <<0, 1, 2>>

\* floor(v / 5), the outer edge 20 counted to the last cell
CellOf(v) == IF v = 20 THEN 3 ELSE v \div 5

\* v is on a boundary between two cells
OnInteriorBoundary(v) == v \in {5, 10, 15}

CellsOf(v) == IF OnInteriorBoundary(v) THEN {v \div 5 - 1, v \div 5} ELSE {CellOf(v)}

\* C26: a coordinate on an interior boundary is counted to the lower or to
\* the higher cell and to no other, both being possible; 0 and 20 are
\* counted to one cell only; so the position lies in the closed square of
\* the cell returned.
C26_BoundaryTie ==
    /\ \A x \in 0..MAX_COORD, y \in 0..MAX_COORD :
          ClusterIdOutcomes(x, y) = {row * 4 + col : col \in CellsOf(x), row \in CellsOf(y)}
    /\ q_cluster # NoCluster =>
          /\ q_cluster % 4 \in CellsOf(q_x)
          /\ q_cluster \div 4 \in CellsOf(q_y)
          /\ 5 * (q_cluster % 4) <= q_x /\ q_x <= 5 * (q_cluster % 4) + 5
          /\ 5 * (q_cluster \div 4) <= q_y /\ q_y <= 5 * (q_cluster \div 4) + 5

\* x = 5 counted to the higher cell, y = 15 to the lower
C26_Witness == q_x = 5 /\ q_y = 15 /\ q_cluster = 9

\* C27: when build_kd_tree has returned, the index holds the positions of
\* the current node list, entry i that of nodes[i], also when the list has
\* become empty after an index was built.
C27_IndexMatchesList ==
    call.op = "build_kd_tree" => kd_tree.data = Positions

\* C28: in every network the constructor has built, in either mode, the
\* node at list position i has node_id i.
C28_IdIsPosition ==
    pc # "new" => \A i \in 1..Len(nodes) : heap[nodes[i]].node_id = i - 1

\* C29: no step of find_route changes the node list, a node's position, r,
\* e, p, f or cluster, a cluster's member list or head, or the KD-tree.
C29_PureQuery ==
    [][pc # "new" =>
        /\ nodes' = nodes
        /\ heap' = heap
        /\ clusters' = clusters
        /\ kd_tree' = kd_tree]_vars

\* find_route has given up after one hop
C29_Witness ==
    /\ pc = "returned" /\ result = <<>>
    /\ Len(route) = 2 /\ Cardinality(already_visited) = 2

=============================================================================
